---- MODULE Spec2Model ----
(***************************************************************************)
(* Model of the session / conversation state management of MentorApp      *)
(* (frontend/app/page.tsx): the React state of the component, the two     *)
(* localStorage slots, the Mentor API requests in flight and the          *)
(* streamExplanation timers.                                               *)
(*                                                                         *)
(* Text is a sequence of one-character strings, so that trim(), slice()   *)
(* and length are computed and not assumed.  Local ids are tuples:        *)
(* <<"u", n>> is the n-th value of crypto.randomUUID(), <<"p", n>> an id  *)
(* found in storage, <<>> the empty string.                                *)
(***************************************************************************)
EXTENDS Integers, Sequences, FiniteSets, TLC

\* ------------------------------------------------------------ bounds
\* identifiers crypto.randomUUID() hands out in one run
MaxIds == 2
\* longest question body drawn for the title derivation
MaxBody == 63
\* most leading / trailing blanks drawn for the title derivation
MaxPad == 1

\* ------------------------------------------------------------ values
\* JavaScript null / undefined of a string-or-null value (no remote id is this)
NULL == "<null>"
\* the empty string as a remote id: falsy, like null
EMPTY == ""

RemoteIds == {"r1", "r2"}

Truthy(s) == s # NULL /\ s # EMPTY

Min(a, b) == IF a < b THEN a ELSE b

\* ------------------------------------------------------------ text
IsWs(c) == c \in {" ", "\t", "\n"}

\* String.prototype.trim
Trim(s) ==
    IF \A i \in 1..Len(s) : IsWs(s[i]) THEN <<>>
    ELSE LET a == CHOOSE i \in 1..Len(s) :
                      ~IsWs(s[i]) /\ \A j \in 1..(i - 1) : IsWs(s[j])
             b == CHOOSE i \in 1..Len(s) :
                      ~IsWs(s[i]) /\ \A j \in (i + 1)..Len(s) : IsWs(s[j])
         IN  SubSeq(s, a, b)

\* String.prototype.slice(0, n) for n >= 0
Slice0(s, n) == SubSeq(s, 1, Min(n, Len(s)))

TitleLimit == 60
TitleKeep == 57
Ellipsis == <<".", ".", ".">>

NewConversationTitle ==
    <<"N","e","w"," ","c","o","n","v","e","r","s","a","t","i","o","n">>
UntitledTitle ==
    <<"U","n","t","i","t","l","e","d"," ","c","o","n","v","e","r","s","a","t","i","o","n">>
DefaultTitle ==
    <<"C","o","n","v","e","r","s","a","t","i","o","n">>
GenericError == "Something went wrong while calling the mentor API."

\* ------------------------------------------------------------ identifiers
\* crypto.randomUUID(): the n-th identifier handed out; never one seen before
RandomUUID(n) == <<"u", n>>

\* ------------------------------------------------------------ JSON values
\* A parsed JSON value carries its JavaScript type in .t; to read a property of a
\* value that is not an object gives undefined.
JUndef == [t |-> "undefined"]
JNull == [t |-> "null"]
JStr(s) == [t |-> "string", v |-> s]
JNum(n) == [t |-> "number", v |-> n]
JArr(a) == [t |-> "array", v |-> a]
JObj(r) == [t |-> "object", v |-> r]

\* c.f (for c neither null nor undefined)
Field(c, f) == IF c.t = "object" THEN c.v[f] ELSE JUndef

\* A localStorage slot: absent, or a text; the text is empty, or not JSON, or
\* the JSON text of .json.
SlotAbsent == [present |-> FALSE, empty |-> FALSE, valid |-> FALSE, json |-> JUndef]
SlotEmpty == [present |-> TRUE, empty |-> TRUE, valid |-> FALSE, json |-> JUndef]
SlotGarbage == [present |-> TRUE, empty |-> FALSE, valid |-> FALSE, json |-> JUndef]
SlotJson(j) == [present |-> TRUE, empty |-> FALSE, valid |-> TRUE, json |-> j]

\* ------------------------------------------------------------ records
\* ChatTurn: its id, the question as submitted and the visible explanation
\* (response.explanation); the fields no handler reads back are left out
ChatTurn(id, q, expl) == [id |-> id, question |-> q, explanation |-> expl]

SavedConversation(id, cid, title, createdAt, turns) ==
    [id |-> id, conversationId |-> cid, title |-> title,
     createdAt |-> createdAt, turns |-> turns]

\* JSON.stringify of one SavedConversation / of the whole list
ConvToJson(c) ==
    JObj([id |-> JStr(c.id),
          conversationId |-> IF c.conversationId = NULL THEN JNull
                             ELSE JStr(c.conversationId),
          conversation_id |-> JUndef,
          title |-> JStr(c.title),
          createdAt |-> JNum(c.createdAt),
          turns |-> JArr(c.turns)])

\* a save that writes the list oldest first
StringifyReversed(convs) ==
    SlotJson(JArr([i \in 1..Len(convs) |-> ConvToJson(convs[Len(convs) + 1 - i])]))

Stringify(convs) == SlotJson(JArr([i \in 1..Len(convs) |-> ConvToJson(convs[i])]))

\* ------------------------------------------------------------ load
\* KeepsId without the set of ids seen in this pass
KeepsIdNoSeen(c, seen) ==
    /\ Field(c, "id").t = "string"
    /\ Len(Field(c, "id").v) > 0

\* the id a record is given (lines 106-115): its own non-empty string id, unless
\* that id was already seen in this pass; else a fresh one
KeepsId(c, seen) ==
    /\ Field(c, "id").t = "string"
    /\ Len(Field(c, "id").v) > 0
    /\ Field(c, "id").v \notin seen

SanitizedRemoteId(c) ==
    IF Field(c, "conversationId").t = "string" THEN Field(c, "conversationId").v
    ELSE IF Field(c, "conversation_id").t = "string" THEN Field(c, "conversation_id").v
    ELSE NULL

SanitizedTitle(c) ==
    IF Field(c, "title").t = "string" /\ Len(Trim(Field(c, "title").v)) > 0
    THEN Field(c, "title").v
    ELSE DefaultTitle

SanitizedCreatedAt(c, now) ==
    IF Field(c, "createdAt").t = "number" THEN Field(c, "createdAt").v ELSE now

SanitizedTurns(c) ==
    IF Field(c, "turns").t = "array" THEN Field(c, "turns").v ELSE <<>>

\* parsed.map(...) over the records from the i-th on; n is the number of
\* identifiers handed out so far, which is also the clock
RECURSIVE SanitizeFrom(_, _, _, _)
SanitizeFrom(recs, i, seen, n) ==
    IF i > Len(recs) THEN [convs |-> <<>>, n |-> n]
    ELSE LET c == recs[i]
             keep == KeepsId(c, seen)
             id == IF keep THEN Field(c, "id").v ELSE RandomUUID(n + 1)
             n1 == IF keep THEN n ELSE n + 1
             conv == SavedConversation(id, SanitizedRemoteId(c), SanitizedTitle(c),
                                       SanitizedCreatedAt(c, n1), SanitizedTurns(c))
             rest == SanitizeFrom(recs, i + 1, seen \cup {id}, n1)
         IN  [convs |-> <<conv>> \o rest.convs, n |-> rest.n]

\* a record whose property read throws (c.id of null or undefined)
Throws(c) == c.t \in {"null", "undefined"}

\* the conversations initializer (lines 92-146)
LoadConversations(slot, n) ==
    IF ~slot.present \/ slot.empty THEN [convs |-> <<>>, n |-> n]
    ELSE IF ~slot.valid THEN [convs |-> <<>>, n |-> n]
    ELSE IF slot.json.t # "array" THEN [convs |-> <<>>, n |-> n]
    ELSE IF \E i \in 1..Len(slot.json.v) : Throws(slot.json.v[i])
         THEN [convs |-> <<>>, n |-> n]
    ELSE SanitizeFrom(slot.json.v, 1, {}, n)

\* ------------------------------------------------------------ inputs
\* what the user types into the question, code and error boxes
Questions == {<<>>, <<" ">>, <<" ", "q">>}
Codes == {<<>>, <<"c">>}
ErrorMsgs == {<<>>, <<"e">>}
\* what the user types into the title box of the sidebar
EditTitles == {<<" ">>, <<" ", "M", " ">>}
\* data.conversation_id of a response: missing, empty, or an id
ResponseIds == {NULL, EMPTY} \cup RemoteIds
\* data.explanation of a response
Explanations == {<<"x", "y", "z">>}

\* a turn and conversations as an earlier run of the program stored them
StoredTurn == ChatTurn(<<"p", 9>>, <<"o", "l", "d">>, <<"x">>)
StoredConv ==
    JObj([id |-> JStr(<<"p", 1>>), conversationId |-> JStr("r1"),
          conversation_id |-> JUndef, title |-> JStr(<<"T">>),
          createdAt |-> JNum(0), turns |-> JArr(<<StoredTurn>>)])
\* a record with the id of StoredConv, the legacy field name and nothing else
LegacyConv ==
    JObj([id |-> JStr(<<"p", 1>>), conversationId |-> JUndef,
          conversation_id |-> JStr("r2"), title |-> JStr(<<" ">>),
          createdAt |-> JUndef, turns |-> JUndef])
\* a record without an id
BlankIdConv ==
    JObj([id |-> JStr(<<>>), conversationId |-> JNull,
          conversation_id |-> JUndef, title |-> JUndef,
          createdAt |-> JStr(<<"x">>), turns |-> JNull])

\* what the collection slot may hold when the page opens
StoredSlots ==
    << SlotAbsent, SlotEmpty, SlotGarbage,
       SlotJson(JObj([id |-> JStr(<<"p", 1>>)])),
       SlotJson(JArr(<<JNum(7), JNull, StoredConv>>)),
       SlotJson(JArr(<<StoredConv>>)) >>

\* ------------------------------------------------------------ state
VARIABLES
    mounted,                \* the component has run its state initializers
    question, code, errorMsg,
    conversationId,         \* the active remote id, or NULL
    chat,                   \* the active turns
    conversations,          \* the saved conversations, newest first
    loading, errorText,
    editingConversationId, editTitleValue,
    pending,                \* handleAsk calls awaiting askMentor, with what each closed over
    timers,                 \* the running streamExplanation intervals
    nextId,                 \* identifiers handed out so far
    lsConversations,        \* localStorage "mentor_conversations"
    lsConversationId,       \* localStorage "conversationId", NULL when absent
    lastOp,                 \* history: the handler that ran last, and its branch
    sessionBound            \* history: the id a response bound in this session

vars == << mounted, question, code, errorMsg, conversationId, chat, conversations,
           loading, errorText, editingConversationId, editTitleValue, pending,
           timers, nextId, lsConversations, lsConversationId, lastOp, sessionBound >>

inputVars == << question, code, errorMsg >>
editVars == << editingConversationId, editTitleValue >>
sessionVars == << conversationId, lsConversationId, chat, sessionBound >>
storeVars == << conversations, lsConversations >>

\* no conversation is being renamed
NoEdit == <<"none">>

Init ==
    /\ mounted = FALSE
    /\ question = <<>> /\ code = <<>> /\ errorMsg = <<>>
    /\ conversationId = NULL
    /\ chat = <<>>
    /\ conversations = <<>>
    /\ loading = FALSE /\ errorText = NULL
    /\ editingConversationId = NoEdit /\ editTitleValue = <<>>
    /\ pending = <<>>
    /\ timers = {}
    /\ nextId = 0
    /\ \E i \in 1..Len(StoredSlots) : lsConversations = StoredSlots[i]
    /\ lsConversationId \in {NULL, "r1"}
    /\ lastOp = "none"
    /\ sessionBound = NULL

\* the return the conversations initializer takes (lines 96, 100, 104-142, 144)
LoadOutcome(slot) ==
    IF ~slot.present \/ slot.empty THEN "mountAbsent"
    ELSE IF ~slot.valid THEN "mountUnparseable"
    ELSE IF slot.json.t # "array" THEN "mountNotArray"
    ELSE IF \E i \in 1..Len(slot.json.v) : Throws(slot.json.v[i]) THEN "mountThrew"
    ELSE "mountLoaded"

\* Mount without the try/catch of the initializer: JSON.parse throws out of the
\* first render and the page never shows
MountNoCatch ==
    /\ ~mounted
    /\ IF lsConversations.present /\ ~lsConversations.empty /\ ~lsConversations.valid
       THEN /\ lastOp' = "crash"
            /\ UNCHANGED << mounted, conversations, nextId, lsConversations,
                            conversationId >>
       ELSE /\ mounted' = TRUE
            /\ LET r == LoadConversations(lsConversations, nextId)
               IN  /\ conversations' = r.convs
                   /\ nextId' = r.n
                   /\ lsConversations' = Stringify(r.convs)
            /\ conversationId' = lsConversationId
            /\ lastOp' = LoadOutcome(lsConversations)
    /\ UNCHANGED << inputVars, editVars, chat, loading, errorText, pending, timers,
                    lsConversationId, sessionBound >>

\* the first render: the useState initializers (lines 83-146) and the save
\* effect of the first commit (lines 155-159)
Mount ==
    /\ ~mounted
    /\ mounted' = TRUE
    /\ LET r == LoadConversations(lsConversations, nextId)
       IN  /\ conversations' = r.convs
           /\ nextId' = r.n
           /\ lsConversations' = Stringify(r.convs)
    /\ conversationId' = lsConversationId
    /\ lastOp' = LoadOutcome(lsConversations)
    /\ UNCHANGED << inputVars, editVars, chat, loading, errorText, pending, timers,
                    lsConversationId, sessionBound >>

\* onChange of the three text boxes
SetQuestion(q) ==
    /\ mounted /\ q # question
    /\ question' = q
    /\ lastOp' = "input"
    /\ UNCHANGED << mounted, code, errorMsg, sessionVars, storeVars, loading, errorText,
                    editVars, pending, timers, nextId >>

SetCode(c) ==
    /\ mounted /\ c # code
    /\ code' = c
    /\ lastOp' = "input"
    /\ UNCHANGED << mounted, question, errorMsg, sessionVars, storeVars, loading,
                    errorText, editVars, pending, timers, nextId >>

SetErrorMsg(e) ==
    /\ mounted /\ e # errorMsg
    /\ errorMsg' = e
    /\ lastOp' = "input"
    /\ UNCHANGED << mounted, question, code, sessionVars, storeVars, loading, errorText,
                    editVars, pending, timers, nextId >>

\* ------------------------------------------------------------ handleAsk
\* room for the identifiers the requests in flight will still need
IdsLeft == nextId + Len(pending) < MaxIds

RemoveAt(seq, i) == SubSeq(seq, 1, i - 1) \o SubSeq(seq, i + 1, Len(seq))

\* IsBlank without the trim
IsBlankNoTrim(q) == Len(q) = 0

\* line 197: the question is blank
IsBlank(q) == Len(Trim(q)) = 0

\* AskRequest sending no conversation id at all
AskRequestNoId ==
    [question |-> question, code_snippet |-> code, error_message |-> errorMsg,
     conversation_id |-> NULL]

\* what handleAsk closes over and sends (lines 202-208)
AskRequest ==
    [question |-> question, code_snippet |-> code, error_message |-> errorMsg,
     conversation_id |-> conversationId]

\* handleAsk up to its await (lines 196-208)
HandleAsk ==
    IF IsBlank(question)
    THEN /\ lastOp' = "askBlank"
         /\ UNCHANGED << mounted, inputVars, sessionVars, storeVars, loading, errorText,
                         editVars, pending, timers, nextId >>
    ELSE /\ IdsLeft
         /\ loading' = TRUE
         /\ errorText' = NULL
         /\ pending' = Append(pending, AskRequest)
         /\ lastOp' = "askIssued"
         /\ UNCHANGED << mounted, inputVars, sessionVars, storeVars, editVars, timers,
                         nextId >>

\* BindsRemoteId testing the active id of the moment the response arrives
BindsRemoteIdActive(closedOver, responseId) ==
    ~Truthy(conversationId) /\ Truthy(responseId)

\* line 210: the response's id is bound when the id the call closed over is
\* falsy and the response carries a truthy one
BindsRemoteId(closedOver, responseId) == ~Truthy(closedOver) /\ Truthy(responseId)

\* streamExplanation up to its first tick (lines 166-172)
StartTimer(fullText, turnId) == [turnId |-> turnId, fullText |-> fullText, index |-> 0]

\* AskSuccess serving the requests in the order they were issued: whichever
\* response arrives, the turn of the oldest request is appended
AskSuccessIssueOrder(i, responseId, explanation) ==
    LET req == pending[1]
        bind == BindsRemoteId(req.conversation_id, responseId)
        turnId == RandomUUID(nextId + 1)
    IN  /\ mounted
        /\ conversationId' = IF bind THEN responseId ELSE conversationId
        /\ lsConversationId' = IF bind THEN responseId ELSE lsConversationId
        /\ sessionBound' = IF bind THEN responseId ELSE sessionBound
        /\ nextId' = nextId + 1
        /\ chat' = Append(chat, ChatTurn(turnId, req.question, <<>>))
        /\ question' = <<>> /\ code' = <<>> /\ errorMsg' = <<>>
        /\ timers' = timers \cup {StartTimer(explanation, turnId)}
        /\ loading' = FALSE
        /\ pending' = RemoveAt(pending, 1)
        /\ lastOp' = IF i > 1 THEN "askOvertakes"
                      ELSE IF bind THEN "askBound" ELSE "askSuccess"
        /\ UNCHANGED << mounted, storeVars, errorText, editVars >>

\* AskSuccess with no streaming: the turn is appended with the whole explanation
AskSuccessShowsAll(i, responseId, explanation) ==
    LET req == pending[i]
        bind == BindsRemoteId(req.conversation_id, responseId)
        turnId == RandomUUID(nextId + 1)
    IN  /\ mounted
        /\ conversationId' = IF bind THEN responseId ELSE conversationId
        /\ lsConversationId' = IF bind THEN responseId ELSE lsConversationId
        /\ sessionBound' = IF bind THEN responseId ELSE sessionBound
        /\ nextId' = nextId + 1
        /\ chat' = Append(chat, ChatTurn(turnId, req.question, explanation))
        /\ question' = <<>> /\ code' = <<>> /\ errorMsg' = <<>>
        /\ timers' = timers \cup {StartTimer(explanation, turnId)}
        /\ loading' = FALSE
        /\ pending' = RemoveAt(pending, i)
        /\ lastOp' = IF i > 1 THEN "askOvertakes"
                      ELSE IF bind THEN "askBound" ELSE "askSuccess"
        /\ UNCHANGED << mounted, storeVars, errorText, editVars >>

\* handleAsk after askMentor resolved with data (lines 210-250, 255)
AskSuccess(i, responseId, explanation) ==
    LET req == pending[i]
        bind == BindsRemoteId(req.conversation_id, responseId)
        turnId == RandomUUID(nextId + 1)
    IN  /\ mounted
        /\ conversationId' = IF bind THEN responseId ELSE conversationId
        /\ lsConversationId' = IF bind THEN responseId ELSE lsConversationId
        /\ sessionBound' = IF bind THEN responseId ELSE sessionBound
        /\ nextId' = nextId + 1
        /\ chat' = Append(chat, ChatTurn(turnId, req.question, <<>>))
        /\ question' = <<>> /\ code' = <<>> /\ errorMsg' = <<>>
        /\ timers' = timers \cup {StartTimer(explanation, turnId)}
        /\ loading' = FALSE
        /\ pending' = RemoveAt(pending, i)
        /\ lastOp' = IF i > 1 THEN "askOvertakes"
                      ELSE IF bind THEN "askBound" ELSE "askSuccess"
        /\ UNCHANGED << mounted, storeVars, errorText, editVars >>

\* AskFailure without the finally block: loading is left set
AskFailureNoFinally(i) ==
    /\ mounted
    /\ errorText' = GenericError
    /\ pending' = RemoveAt(pending, i)
    /\ lastOp' = "askFailure"
    /\ UNCHANGED << mounted, inputVars, sessionVars, storeVars, editVars, timers, nextId,
                    loading >>

\* AskFailure appending a turn all the same
AskFailureAppends(i) ==
    /\ mounted
    /\ errorText' = GenericError
    /\ loading' = FALSE
    /\ chat' = Append(chat, ChatTurn(RandomUUID(nextId + 1), pending[i].question, <<>>))
    /\ nextId' = nextId + 1
    /\ pending' = RemoveAt(pending, i)
    /\ lastOp' = "askFailure"
    /\ UNCHANGED << mounted, inputVars, conversationId, lsConversationId, sessionBound,
                    storeVars, editVars, timers >>

\* handleAsk after askMentor threw (lines 251-256)
AskFailure(i) ==
    /\ mounted
    /\ errorText' = GenericError
    /\ loading' = FALSE
    /\ pending' = RemoveAt(pending, i)
    /\ lastOp' = "askFailure"
    /\ UNCHANGED << mounted, inputVars, sessionVars, storeVars, editVars, timers, nextId >>

\* EnterKey without the test of loading
EnterKeyWhileLoading ==
    /\ mounted
    /\ ~IsBlank(question)
    /\ HandleAsk

\* the Send button, disabled while loading or blank (lines 749-756)
SendClick ==
    /\ mounted
    /\ ~(loading \/ IsBlank(question))
    /\ HandleAsk

\* Enter in the question box (lines 361-368)
EnterKey ==
    /\ mounted
    /\ ~loading /\ ~IsBlank(question)
    /\ HandleAsk

\* ------------------------------------------------------------ streamExplanation
ChunkSize == 2

\* Tick with no clamp at the end of the text: the slice runs on
TickOvershoots(t) ==
    LET index == t.index + ChunkSize
    IN  /\ mounted
        /\ chat' = [k \in 1..Len(chat) |->
                      IF chat[k].id = t.turnId
                      THEN [chat[k] EXCEPT
                               !.explanation = Slice0(t.fullText \o t.fullText, index)]
                      ELSE chat[k]]
        /\ timers' = IF index >= Len(t.fullText)
                     THEN timers \ {t}
                     ELSE (timers \ {t}) \cup {[t EXCEPT !.index = index]}
        /\ lastOp' = "tick"
        /\ UNCHANGED << mounted, inputVars, conversationId, lsConversationId, sessionBound,
                        storeVars, loading, errorText, editVars, pending, nextId >>

\* Tick that stops one tick late: the test is > and not >=
TickStopsLate(t) ==
    LET index == t.index + ChunkSize
    IN  /\ mounted
        /\ chat' = [k \in 1..Len(chat) |->
                      IF chat[k].id = t.turnId
                      THEN [chat[k] EXCEPT !.explanation = Slice0(t.fullText, index)]
                      ELSE chat[k]]
        /\ timers' = IF index > Len(t.fullText)
                     THEN timers \ {t}
                     ELSE (timers \ {t}) \cup {[t EXCEPT !.index = index]}
        /\ lastOp' = "tick"
        /\ UNCHANGED << mounted, inputVars, conversationId, lsConversationId, sessionBound,
                        storeVars, loading, errorText, editVars, pending, nextId >>

\* Tick writing through to the saved conversations that hold the turn
TickWritesStore(t) ==
    LET index == t.index + ChunkSize
        shown(turns) == [k \in 1..Len(turns) |->
                            IF turns[k].id = t.turnId
                            THEN [turns[k] EXCEPT !.explanation = Slice0(t.fullText, index)]
                            ELSE turns[k]]
        convs == [k \in 1..Len(conversations) |->
                     [conversations[k] EXCEPT !.turns = shown(conversations[k].turns)]]
    IN  /\ mounted
        /\ chat' = shown(chat)
        /\ conversations' = convs
        /\ lsConversations' = Stringify(convs)
        /\ timers' = IF index >= Len(t.fullText)
                     THEN timers \ {t}
                     ELSE (timers \ {t}) \cup {[t EXCEPT !.index = index]}
        /\ lastOp' = "tick"
        /\ UNCHANGED << mounted, inputVars, conversationId, lsConversationId, sessionBound,
                        loading, errorText, editVars, pending, nextId >>

\* Tick without the test of the turn id: every active turn is written
TickWritesAll(t) ==
    LET index == t.index + ChunkSize
    IN  /\ mounted
        /\ chat' = [k \in 1..Len(chat) |->
                      [chat[k] EXCEPT !.explanation = Slice0(t.fullText, index)]]
        /\ timers' = IF index >= Len(t.fullText)
                     THEN timers \ {t}
                     ELSE (timers \ {t}) \cup {[t EXCEPT !.index = index]}
        /\ lastOp' = "tick"
        /\ UNCHANGED << mounted, inputVars, conversationId, lsConversationId, sessionBound,
                        storeVars, loading, errorText, editVars, pending, nextId >>

\* one tick of the interval (lines 172-192)
Tick(t) ==
    LET index == t.index + ChunkSize
    IN  /\ mounted
        /\ chat' = [k \in 1..Len(chat) |->
                      IF chat[k].id = t.turnId
                      THEN [chat[k] EXCEPT !.explanation = Slice0(t.fullText, index)]
                      ELSE chat[k]]
        /\ timers' = IF index >= Len(t.fullText)
                     THEN timers \ {t}
                     ELSE (timers \ {t}) \cup {[t EXCEPT !.index = index]}
        /\ lastOp' = "tick"
        /\ UNCHANGED << mounted, inputVars, conversationId, lsConversationId, sessionBound,
                        storeVars, loading, errorText, editVars, pending, nextId >>

\* ------------------------------------------------------------ handleNewConversation
\* DeriveTitle cutting at the limit instead of three short of it
DeriveTitleLong(q) ==
    LET baseTitle == IF Len(Trim(q)) > 0 THEN Trim(q) ELSE NewConversationTitle
    IN  IF Len(baseTitle) > TitleLimit
        THEN Slice0(baseTitle, TitleLimit) \o Ellipsis
        ELSE baseTitle

\* lines 264-270
DeriveTitle(q) ==
    LET baseTitle == IF Len(Trim(q)) > 0 THEN Trim(q) ELSE NewConversationTitle
    IN  IF Len(baseTitle) > TitleLimit
        THEN Slice0(baseTitle, TitleKeep) \o Ellipsis
        ELSE baseTitle

\* Snapshot that forgets the remote id of the session
SnapshotNoRemoteId(storageId, now) ==
    SavedConversation(storageId, NULL, DeriveTitle(chat[1].question), now, chat)

\* lines 277-283
Snapshot(storageId, now) ==
    SavedConversation(storageId, conversationId, DeriveTitle(chat[1].question), now, chat)

\* ResetSession that leaves the error banner up
ResetSessionKeepsError ==
    /\ conversationId' = NULL
    /\ lsConversationId' = NULL
    /\ chat' = <<>>
    /\ question' = <<>> /\ code' = <<>> /\ errorMsg' = <<>>
    /\ errorText' = errorText
    /\ sessionBound' = NULL

\* lines 288-296, and the same in handleDeleteConversation (lines 349-357)
ResetSession ==
    /\ conversationId' = NULL
    /\ lsConversationId' = NULL
    /\ chat' = <<>>
    /\ question' = <<>> /\ code' = <<>> /\ errorMsg' = <<>>
    /\ errorText' = NULL
    /\ sessionBound' = NULL

\* lines 260-297, with the save effect
HandleNewConversation ==
    /\ mounted
    /\ IF Len(chat) > 0
       THEN /\ IdsLeft
            /\ nextId' = nextId + 1
            /\ conversations' =
                   <<Snapshot(RandomUUID(nextId + 1), nextId + 1)>> \o conversations
            /\ lsConversations' = Stringify(conversations')
            /\ lastOp' = "newSnapshot"
       ELSE /\ UNCHANGED << nextId, storeVars >>
            /\ lastOp' = "newEmpty"
    /\ ResetSession
    /\ UNCHANGED << mounted, loading, editVars, pending, timers >>

\* ------------------------------------------------------------ sidebar
\* handleLoadConversation without setConversationId and the scalar slot
HandleLoadKeepsRemoteId(conv) ==
    /\ mounted
    /\ chat' = conv.turns
    /\ sessionBound' = NULL
    /\ lastOp' = "load"
    /\ UNCHANGED << mounted, inputVars, storeVars, loading, errorText, editVars, pending,
                    timers, nextId, conversationId, lsConversationId >>

\* lines 299-312
HandleLoadConversation(conv) ==
    /\ mounted
    /\ chat' = conv.turns
    /\ conversationId' = conv.conversationId
    /\ lsConversationId' = IF Truthy(conv.conversationId) THEN conv.conversationId ELSE NULL
    /\ sessionBound' = NULL
    /\ lastOp' = "load"
    /\ UNCHANGED << mounted, inputVars, storeVars, loading, errorText, editVars, pending,
                    timers, nextId >>

\* lines 313-316
StartEditConversationTitle(conv) ==
    /\ mounted
    /\ editingConversationId = NoEdit
    /\ editingConversationId' = conv.id
    /\ editTitleValue' = conv.title
    /\ lastOp' = "startEdit"
    /\ UNCHANGED << mounted, inputVars, sessionVars, storeVars, loading, errorText,
                    pending, timers, nextId >>

\* the conversation being renamed is in the list, so its title box is shown
Editing == \E k \in 1..Len(conversations) : conversations[k].id = editingConversationId

\* onChange of the title box (line 430)
SetEditTitle(v) ==
    /\ mounted /\ Editing /\ v # editTitleValue
    /\ editTitleValue' = v
    /\ lastOp' = "input"
    /\ UNCHANGED << mounted, inputVars, sessionVars, storeVars, loading, errorText,
                    editingConversationId, pending, timers, nextId >>

\* lines 318-321; Escape in the title box
CancelEditConversationTitle ==
    /\ mounted /\ Editing
    /\ editingConversationId' = NoEdit
    /\ editTitleValue' = <<>>
    /\ lastOp' = "cancelEdit"
    /\ UNCHANGED << mounted, inputVars, sessionVars, storeVars, loading, errorText,
                    pending, timers, nextId >>

\* RenamedTitle storing the text as typed
RenamedTitleNoTrim(v) == IF Len(Trim(v)) = 0 THEN UntitledTitle ELSE v

\* lines 324-338: the title a rename stores
RenamedTitle(v) == IF Len(Trim(v)) = 0 THEN UntitledTitle ELSE Trim(v)

\* lines 323-341, with the save effect; blur or Enter in the title box
SaveConversationTitle(id) ==
    /\ mounted /\ Editing /\ id = editingConversationId
    /\ conversations' = [k \in 1..Len(conversations) |->
                           IF conversations[k].id = id
                           THEN [conversations[k] EXCEPT !.title = RenamedTitle(editTitleValue)]
                           ELSE conversations[k]]
    /\ lsConversations' = Stringify(conversations')
    /\ editingConversationId' = NoEdit
    /\ editTitleValue' = <<>>
    /\ lastOp' = IF IsBlank(editTitleValue) THEN "renameBlank" ELSE "rename"
    /\ UNCHANGED << mounted, inputVars, sessionVars, loading, errorText, pending, timers,
                    nextId >>

\* DeletesActive without the test that a remote id is bound
DeletesActiveNoGuard(conv) == conv.conversationId = conversationId

\* line 348: the deleted conversation is the one on screen
DeletesActive(conv) == Truthy(conversationId) /\ conv.conversationId = conversationId

\* lines 344-359, with the save effect
HandleDeleteConversation(conv) ==
    /\ mounted
    /\ LET Keep(c) == c.id # conv.id
       IN  conversations' = SelectSeq(conversations, Keep)
    /\ lsConversations' = Stringify(conversations')
    /\ IF DeletesActive(conv)
       THEN /\ ResetSession
            /\ lastOp' = "deleteActive"
       ELSE /\ UNCHANGED << inputVars, sessionVars, errorText >>
            /\ lastOp' = "deleteOther"
    /\ UNCHANGED << mounted, loading, editVars, pending, timers, nextId >>

\* ------------------------------------------------------------ specifications
\* requests handleAsk may have in flight when it is called with no guard
MaxPending == 2

\* handleAsk called as it stands, whatever the page shows
AskDirect ==
    /\ mounted
    /\ Len(pending) < MaxPending
    /\ HandleAsk

Typing ==
    \/ \E q \in Questions : SetQuestion(q)
    \/ \E c \in Codes : SetCode(c)
    \/ \E e \in ErrorMsgs : SetErrorMsg(e)

AskCompletes ==
    \E i \in 1..Len(pending) :
        \/ \E r \in ResponseIds, x \in Explanations : AskSuccess(i, r, x)
        \/ AskFailure(i)

TimerFires == \E t \in timers : Tick(t)

LoadClick == \E k \in 1..Len(conversations) : HandleLoadConversation(conversations[k])

DeleteClick == \E k \in 1..Len(conversations) : HandleDeleteConversation(conversations[k])

Rename ==
    \/ \E k \in 1..Len(conversations) : StartEditConversationTitle(conversations[k])
    \/ \E v \in EditTitles : SetEditTitle(v)
    \/ CancelEditConversationTitle
    \/ \E k \in 1..Len(conversations) : SaveConversationTitle(conversations[k].id)

\* the page as the user drives it
Next ==
    \/ Mount
    \/ Typing
    \/ SendClick
    \/ EnterKey
    \/ AskCompletes
    \/ TimerFires
    \/ HandleNewConversation
    \/ LoadClick
    \/ DeleteClick
    \/ Rename

Spec == Init /\ [][Next]_vars

\* The page without the rename box.  No handler of SessionNext reads or writes
\* editingConversationId or editTitleValue, so its behaviours are those of Spec
\* with the rename steps left out.
SessionNext ==
    \/ Mount
    \/ Typing
    \/ SendClick
    \/ EnterKey
    \/ AskCompletes
    \/ TimerFires
    \/ HandleNewConversation
    \/ LoadClick
    \/ DeleteClick

SessionSpec == Init /\ [][SessionNext]_vars

\* SessionSpec with every request completing: askMentor resolves or throws
LiveSessionSpec == SessionSpec /\ WF_vars(AskCompletes)

\* The sidebar with the rename box, on sessions that are loaded and saved again;
\* no question is sent.
SidebarNext ==
    \/ Mount
    \/ Typing
    \/ HandleNewConversation
    \/ LoadClick
    \/ DeleteClick
    \/ Rename

SidebarSpec == Init /\ [][SidebarNext]_vars

\* handleAsk as an operation of its own: called in any state, blank question
\* and a request in flight included
DirectNext ==
    \/ Mount
    \/ Typing
    \/ AskDirect
    \/ AskCompletes
    \/ TimerFires
    \/ HandleNewConversation

DirectSpec == Init /\ [][DirectNext]_vars

\* ------------------------------------------------------------ title derivation
\* a question body of n characters, with a blank inside
Letters == <<"a", "b", "c", "d", "e", "f", "g">>
Body(n) == [i \in 1..n |-> IF i = 3 THEN " " ELSE Letters[(i % 7) + 1]]
Pad(n) == [i \in 1..n |-> " "]
TitleQuestions ==
    {Pad(l) \o Body(n) \o Pad(r) : l \in 0..MaxPad, n \in 0..MaxBody, r \in 0..MaxPad}

\* an open session whose first question is any of TitleQuestions
TitleInit ==
    /\ mounted = TRUE
    /\ question = <<>> /\ code = <<>> /\ errorMsg = <<>>
    /\ conversationId \in {NULL, "r1"}
    /\ lsConversationId = conversationId
    /\ \E q \in TitleQuestions : chat = <<ChatTurn(<<"p", 9>>, q, <<"x">>)>>
    /\ conversations = <<>>
    /\ lsConversations = Stringify(<<>>)
    /\ loading = FALSE /\ errorText = NULL
    /\ editingConversationId = NoEdit /\ editTitleValue = <<>>
    /\ pending = <<>>
    /\ timers = {}
    /\ nextId = 0
    /\ lastOp = "mountAbsent"
    /\ sessionBound = NULL

TitleNext ==
    \/ HandleNewConversation
    \/ LoadClick

TitleSpec == TitleInit /\ [][TitleNext]_vars

\* ------------------------------------------------------------ load
\* collection slots with duplicate, blank and missing ids besides StoredSlots
LoadSlots ==
    StoredSlots \o
    << SlotJson(JArr(<<StoredConv, LegacyConv>>)),
       SlotJson(JArr(<<JNum(7), BlankIdConv>>)),
       SlotJson(JArr(<<LegacyConv, BlankIdConv, StoredConv>>)) >>

\* the page before its first render, over LoadSlots
LoadInit ==
    /\ mounted = FALSE
    /\ question = <<>> /\ code = <<>> /\ errorMsg = <<>>
    /\ conversationId = NULL
    /\ chat = <<>>
    /\ conversations = <<>>
    /\ loading = FALSE /\ errorText = NULL
    /\ editingConversationId = NoEdit /\ editTitleValue = <<>>
    /\ pending = <<>>
    /\ timers = {}
    /\ nextId = 0
    /\ \E i \in 1..Len(LoadSlots) : lsConversations = LoadSlots[i]
    /\ lsConversationId \in {NULL, "r1"}
    /\ lastOp = "none"
    /\ sessionBound = NULL

\* the store from the first render on: load, then the sidebar
LoadNext ==
    \/ Mount
    \/ HandleNewConversation
    \/ LoadClick
    \/ DeleteClick
    \/ Rename

LoadSpec == LoadInit /\ [][LoadNext]_vars

\* ------------------------------------------------------------ store
\* the page before its first render, over one saved conversation
StoreInit ==
    /\ mounted = FALSE
    /\ question = <<>> /\ code = <<>> /\ errorMsg = <<>>
    /\ conversationId = NULL
    /\ chat = <<>>
    /\ conversations = <<>>
    /\ loading = FALSE /\ errorText = NULL
    /\ editingConversationId = NoEdit /\ editTitleValue = <<>>
    /\ pending = <<>>
    /\ timers = {}
    /\ nextId = 0
    /\ lsConversations = SlotJson(JArr(<<StoredConv>>))
    /\ lsConversationId = NULL
    /\ lastOp = "none"
    /\ sessionBound = NULL

\* a rename typed and saved
StoreRename ==
    \/ \E k \in 1..Len(conversations) : StartEditConversationTitle(conversations[k])
    \/ SetEditTitle(<<" ", "M", " ">>)
    \/ \E k \in 1..Len(conversations) : SaveConversationTitle(conversations[k].id)

StoreCompletes ==
    \E i \in 1..Len(pending) :
        \/ \E x \in Explanations : AskSuccess(i, "r2", x)
        \/ AskFailure(i)

\* every operation of the page on the saved conversations and around them
StoreNext ==
    \/ Mount
    \/ SetQuestion(<<" ", "q">>)
    \/ SendClick
    \/ StoreCompletes
    \/ TimerFires
    \/ HandleNewConversation
    \/ LoadClick
    \/ DeleteClick
    \/ StoreRename

StoreSpec == StoreInit /\ [][StoreNext]_vars

\* ------------------------------------------------------------ overlap
\* two questions, the second typed while the first is in flight
OverlapQuestions == {<<" ", "q">>, <<"k">>}

\* handleAsk called again before the request before it has completed
OverlapNext ==
    \/ Mount
    \/ \E q \in OverlapQuestions : SetQuestion(q)
    \/ AskDirect
    \/ AskCompletes
    \/ TimerFires
    \/ HandleNewConversation

OverlapSpec == Init /\ [][OverlapNext]_vars

\* ------------------------------------------------------------ reveal
\* longest explanation drawn for the reveal
MaxText == 5

Text(n) == [i \in 1..n |-> Letters[(i % 7) + 1]]
\* data.explanation of a response, the empty text included
RevealTexts == {Text(n) : n \in 0..MaxText}

RevealCompletes ==
    \E i \in 1..Len(pending) : \E x \in RevealTexts : AskSuccess(i, "r1", x)

\* questions answered with explanations of every length up to MaxText, revealed
\* while the session is saved and loaded again
RevealNext ==
    \/ Mount
    \/ SetQuestion(<<" ", "q">>)
    \/ SendClick
    \/ RevealCompletes
    \/ TimerFires
    \/ HandleNewConversation
    \/ LoadClick

RevealSpec == Init /\ [][RevealNext]_vars

\* RevealSpec with the interval firing: setInterval keeps calling back
LiveRevealSpec == RevealSpec /\ WF_vars(TimerFires)

\* ------------------------------------------------------------ claims
Last(seq) == seq[Len(seq)]

\* C1: within one session the active remote id is set at most once: a
\* completing request never changes a remote id that is already bound (it
\* may only bind one while none is bound).
C1_RemoteIdSetOnce ==
    [][AskCompletes => (conversationId # NULL => conversationId' = conversationId)]_vars

\* C2: a question sent from the page carries the active remote id: null in an
\* unbound session, and R once a response has bound R in this session.
C2_SendsBoundId ==
    [][(SendClick \/ EnterKey) =>
          /\ Len(pending') = Len(pending) + 1
          /\ Last(pending').conversation_id = conversationId
          /\ (conversationId = NULL => Last(pending').conversation_id = NULL)
          /\ (sessionBound # NULL => Last(pending').conversation_id = sessionBound)
      ]_vars

C2_Witness ==
    /\ lastOp = "askIssued"
    /\ sessionBound \in RemoteIds
    /\ Len(chat) > 0
    /\ Last(pending).conversation_id = sessionBound

\* C3: sending a non-blank question sets loading, every completion of the
\* request, resolved or thrown, clears it, and with every request completing
\* loading always leads to not loading.
C3_LoadingCleared ==
    /\ [][/\ (SendClick \/ EnterKey) => loading'
          /\ AskCompletes => ~loading'
         ]_vars
    /\ (loading ~> ~loading)

C3_Witness ==
    /\ lastOp = "askFailure"
    /\ ~loading
    /\ pending = <<>>

\* C4: a request that fails appends no turn, leaves the active turns, the active
\* remote id and the store as they were, and sets the generic error message.
C4_FailureKeepsState ==
    [][(\E i \in 1..Len(pending) : AskFailure(i)) =>
          /\ chat' = chat
          /\ conversationId' = conversationId
          /\ lsConversationId' = lsConversationId
          /\ conversations' = conversations
          /\ lsConversations' = lsConversations
          /\ errorText' = GenericError
      ]_vars

C4_Witness ==
    /\ lastOp = "askFailure"
    /\ errorText = GenericError
    /\ Len(chat) > 0
    /\ conversationId # NULL

\* C5: handleAsk with an empty or all-blank question changes nothing: no
\* request, no turn, error and loading as they were, remote id and store too.
C5_BlankAskNoOp ==
    [][(mounted /\ (\A k \in 1..Len(question) : question[k] = " ") /\ HandleAsk) =>
          /\ pending' = pending
          /\ chat' = chat
          /\ errorText' = errorText
          /\ loading' = loading
          /\ conversationId' = conversationId
          /\ lsConversationId' = lsConversationId
          /\ conversations' = conversations
          /\ lsConversations' = lsConversations
          /\ UNCHANGED << inputVars, timers >>
      ]_vars

C5_Witness ==
    /\ lastOp = "askBlank"
    /\ question = <<" ">>
    /\ errorText = GenericError
    /\ Len(chat) > 0

\* C6: right after handleNewConversation the active turns are empty, no remote
\* id is bound, the three input boxes are empty and no error is shown.
C6_NewConversationClears ==
    lastOp \in {"newSnapshot", "newEmpty"} =>
        /\ chat = <<>>
        /\ conversationId = NULL
        /\ question = <<>> /\ code = <<>> /\ errorMsg = <<>>
        /\ errorText = NULL

C6_Witness ==
    /\ lastOp = "newSnapshot"
    /\ chat = <<>>
    /\ conversationId = NULL
    /\ Len(conversations) > 0

\* C7: handleNewConversation on a non-empty session puts one conversation in
\* front of the store, holding the active turns and the active remote id, with
\* the stored ones behind it as they were; on an empty session the store stays.
C7_SnapshotPrepended ==
    [][HandleNewConversation =>
          IF Len(chat) > 0
          THEN /\ Len(conversations') = Len(conversations) + 1
               /\ conversations'[1].turns = chat
               /\ conversations'[1].conversationId = conversationId
               /\ \A k \in 1..Len(conversations) : conversations'[k + 1] = conversations[k]
          ELSE conversations' = conversations
      ]_vars

C7_Witness ==
    /\ lastOp = "newSnapshot"
    /\ Len(conversations) >= 2
    /\ conversations[1].conversationId \in RemoteIds
    /\ Len(conversations[1].turns) > 0

\* the title as the claim words it
ClaimedTitle(q) ==
    IF \A k \in 1..Len(q) : q[k] = " " THEN NewConversationTitle
    ELSE IF Len(Trim(q)) <= 60 THEN Trim(q)
    ELSE [k \in 1..60 |-> IF k <= 57 THEN Trim(q)[k] ELSE "."]

\* C8: the title of a snapshot is "New conversation" for a blank first
\* question, the trimmed question up to 60 characters, and its first 57
\* characters and "..." beyond; it is never longer than 60.
C8_TitleDerivation ==
    [][(HandleNewConversation /\ Len(chat) > 0) =>
          /\ conversations'[1].title = ClaimedTitle(chat[1].question)
          /\ Len(conversations'[1].title) <= 60
      ]_vars

C8_Witness ==
    /\ lastOp = "newSnapshot"
    /\ Len(conversations[1].title) = 60
    /\ conversations[1].title[58] = "."
    /\ conversations[1].title[57] # "."
    /\ Len(Trim(conversations[1].turns[1].question)) = 61

C10_Rename ==
    [][\A k \in 1..Len(conversations) :
          SaveConversationTitle(conversations[k].id) =>
              /\ conversations' =
                     [conversations EXCEPT ![k].title =
                         IF \A j \in 1..Len(editTitleValue) : editTitleValue[j] = " "
                         THEN UntitledTitle
                         ELSE Trim(editTitleValue)]
              /\ UNCHANGED << chat, conversationId, lsConversationId, inputVars,
                              errorText, loading >>
      ]_vars

C10_Witness ==
    /\ lastOp = "rename"
    /\ Len(conversations) >= 2
    /\ \E k \in 1..Len(conversations) : conversations[k].title = <<"M">>
    /\ Len(chat) > 0

IsPrefix(p, full) == Len(p) <= Len(full) /\ \A i \in 1..Len(p) : p[i] = full[i]

\* C11: every value a tick writes to the turn is a prefix of the full text, no
\* longer than it, at least as long as what the turn showed before, and as
\* long as the ticks so far times the chunk size, clamped to the text.
C11_RevealPrefixes ==
    [][\A t \in timers : Tick(t) =>
          \A k \in 1..Len(chat) : chat[k].id = t.turnId =>
              /\ IsPrefix(chat'[k].explanation, t.fullText)
              /\ Len(chat'[k].explanation) <= Len(t.fullText)
              /\ Len(chat'[k].explanation) >= Len(chat[k].explanation)
              /\ Len(chat'[k].explanation) = Min(t.index + 2, Len(t.fullText))
      ]_vars

C11_Witness ==
    /\ lastOp = "tick"
    /\ \E k \in 1..Len(chat) : \E t \in timers :
          /\ t.turnId = chat[k].id
          /\ t.index >= 4
          /\ Len(chat[k].explanation) = t.index
          /\ Len(t.fullText) > t.index

\* C12: a reveal ends: the interval is cleared on the first tick at which the
\* index reaches the length of the text and not before, the value written on
\* that tick is the full text, and with the interval firing no timer stays.
C12_RevealTerminates ==
    /\ [][\A t \in timers : Tick(t) =>
             IF t.index + 2 >= Len(t.fullText)
             THEN /\ \A u \in timers' : u.turnId # t.turnId
                  /\ \A k \in 1..Len(chat) :
                        chat[k].id = t.turnId => chat'[k].explanation = t.fullText
             ELSE \E u \in timers' :
                     u.turnId = t.turnId /\ u.index = t.index + 2 /\ u.index < Len(u.fullText)
        ]_vars
    /\ ((timers # {}) ~> (timers = {}))

C12_Witness ==
    /\ lastOp = "tick"
    /\ timers = {}
    /\ \E k \in 1..Len(chat) :
          /\ chat[k].id[1] = "u"
          /\ Len(chat[k].explanation) = MaxText

\* C13: the ids of the stored conversations are pairwise distinct in every
\* state, after a load of records with duplicate, blank or missing ids and
\* after new conversation, rename and delete.
C13_LocalIdsDistinct ==
    \A i, j \in 1..Len(conversations) :
        i # j => conversations[i].id # conversations[j].id

C13_Witness ==
    /\ lastOp \in {"newSnapshot", "rename", "deleteOther"}
    /\ \E i, j \in 1..Len(conversations) :
          /\ conversations[i].id = <<"p", 1>>
          /\ conversations[j].id[1] = "u"
          /\ conversations[j].conversationId = "r2"

\* C14: the first render over a collection slot that is absent, empty,
\* unparseable or not an array shows the page with no conversation and no error.
C14_LoadNeverFails ==
    [][(/\ ~mounted
        /\ \/ ~lsConversations.present
           \/ lsConversations.empty
           \/ ~lsConversations.valid
           \/ lsConversations.json.t # "array")
       => /\ mounted'
          /\ conversations' = <<>>
          /\ errorText' = NULL
          /\ ~loading'
      ]_vars

C14_Witness ==
    /\ mounted
    /\ lastOp = "mountUnparseable"
    /\ conversations = <<>>
    /\ errorText = NULL

\* C15: loading a saved conversation makes its turns the active turns and its
\* remote id the active remote id, and changes neither the saved conversations
\* nor what is stored of them.
C15_LoadConversation ==
    [][\A k \in 1..Len(conversations) :
          HandleLoadConversation(conversations[k]) =>
              /\ chat' = conversations[k].turns
              /\ conversationId' = conversations[k].conversationId
              /\ conversations' = conversations
              /\ lsConversations' = lsConversations
      ]_vars

C15_Witness ==
    /\ lastOp = "load"
    /\ Len(conversations) >= 2
    /\ \E k \in 1..Len(conversations) :
          /\ chat = conversations[k].turns
          /\ conversationId = conversations[k].conversationId
          /\ conversations[k].conversationId = "r2"
          /\ Len(chat) > 0

\* C16: no turn id occurs in two saved conversations.
C16_TurnIdsUnique ==
    \A i, j \in 1..Len(conversations) :
        i # j =>
            \A a \in 1..Len(conversations[i].turns) :
                \A b \in 1..Len(conversations[j].turns) :
                    conversations[i].turns[a].id # conversations[j].turns[b].id

\* C17: right after handleNewConversation the session is idle: not loading, no
\* turns, no remote id, no error.
C17_NewConversationIdle ==
    lastOp \in {"newSnapshot", "newEmpty"} =>
        /\ ~loading
        /\ chat = <<>>
        /\ conversationId = NULL
        /\ errorText = NULL

\* C18: once the page is shown, the collection slot holds the JSON array of all
\* saved conversations, field by field and in the same order, and the scalar
\* slot holds the active remote id, absent exactly when that id is null.
C18_StorageMirrors ==
    mounted =>
        /\ lsConversations.present /\ ~lsConversations.empty /\ lsConversations.valid
        /\ lsConversations.json.t = "array"
        /\ Len(lsConversations.json.v) = Len(conversations)
        /\ \A k \in 1..Len(conversations) :
              LET j == lsConversations.json.v[k]
                  c == conversations[k]
              IN  /\ j.t = "object"
                  /\ Field(j, "id") = JStr(c.id)
                  /\ Field(j, "conversationId") =
                        (IF c.conversationId = NULL THEN JNull ELSE JStr(c.conversationId))
                  /\ Field(j, "title") = JStr(c.title)
                  /\ Field(j, "createdAt") = JNum(c.createdAt)
                  /\ Field(j, "turns") = JArr(c.turns)
        /\ (lsConversationId = NULL) <=> (conversationId = NULL)
        /\ lsConversationId = conversationId

C18_Witness ==
    /\ mounted
    /\ Len(conversations) >= 2
    /\ conversations[1].id # conversations[2].id
    /\ Len(lsConversations.json.v) = 2
    /\ conversationId # NULL
    /\ lsConversationId = conversationId

\* C19: in every step each saved conversation stays in the list as it is, or
\* keeps everything but its title in a step that saves a title, or leaves the
\* list in a step that deletes it; the other saved conversations stay.
C19_StoredConversationsIntact ==
    [][\A k \in 1..Len(conversations) :
          LET c == conversations[k]
          IN  \/ \E j \in 1..Len(conversations') : conversations'[j] = c
              \/ /\ lastOp' \in {"rename", "renameBlank"}
                 /\ \E j \in 1..Len(conversations') :
                       /\ conversations'[j].id = c.id
                       /\ conversations'[j].conversationId = c.conversationId
                       /\ conversations'[j].createdAt = c.createdAt
                       /\ conversations'[j].turns = c.turns
              \/ /\ lastOp' \in {"deleteActive", "deleteOther"}
                 /\ Len(conversations') = Len(conversations) - 1
                 /\ \A j \in 1..Len(conversations') : conversations'[j].id # c.id
      ]_vars

C19_Witness ==
    /\ lastOp = "tick"
    /\ \E k \in 1..Len(conversations) :
          /\ conversations[k].id[1] = "u"
          /\ Len(conversations[k].turns) = 1
          /\ conversations[k].turns[1].explanation = <<>>
          /\ \E t \in timers : t.turnId = conversations[k].turns[1].id

\* C20: whichever of the requests in flight completes, its turn, and only that
\* one, is appended after the turns that are there, which all stay; the turn
\* carries the question of the request that completed and an id no turn has.
C20_CompletionOrder ==
    [][\A i \in 1..Len(pending) : \A r \in ResponseIds : \A x \in Explanations :
          AskSuccess(i, r, x) =>
              /\ Len(chat') = Len(chat) + 1
              /\ SubSeq(chat', 1, Len(chat)) = chat
              /\ Last(chat').question = pending[i].question
              /\ \A k \in 1..Len(chat) : chat[k].id # Last(chat').id
              /\ Len(pending') = Len(pending) - 1
              /\ \A k \in 1..Len(pending') :
                    pending'[k] = IF k < i THEN pending[k] ELSE pending[k + 1]
      ]_vars

C20_Witness ==
    /\ lastOp = "askOvertakes"
    /\ Len(pending) = 1
    /\ Len(chat) >= 1
    /\ Last(chat).question # pending[1].question

\* C21: a request that succeeds adds one turn after the active turns, which
\* stay as they are; the new turn has an id none of them has and an empty
\* explanation; the three input boxes are emptied; and one timer is started,
\* at index 0, for the new turn's id and the whole explanation of the response.
C21_SuccessAppendsTurn ==
    [][\A i \in 1..Len(pending) : \A r \in ResponseIds : \A x \in Explanations :
          AskSuccess(i, r, x) =>
              /\ Len(chat') = Len(chat) + 1
              /\ \A k \in 1..Len(chat) : chat'[k] = chat[k]
              /\ Last(chat').explanation = <<>>
              /\ \A k \in 1..Len(chat) : chat[k].id # Last(chat').id
              /\ question' = <<>> /\ code' = <<>> /\ errorMsg' = <<>>
              /\ LET t == [turnId |-> Last(chat').id, fullText |-> x, index |-> 0]
                 IN  /\ t \notin timers
                     /\ timers' = timers \cup {t}
      ]_vars

C21_Witness ==
    /\ lastOp \in {"askSuccess", "askBound"}
    /\ Len(chat) >= 2
    /\ Last(chat).explanation = <<>>
    /\ question = <<>> /\ code = <<>> /\ errorMsg = <<>>
    /\ \E t \in timers :
          t.turnId = Last(chat).id /\ t.index = 0 /\ t.fullText = <<"x", "y", "z">>

\* C22: a tick leaves every active turn with another id as it is, changes
\* nothing but the explanation of the turn with its id, and changes neither the
\* saved conversations nor the two storage slots nor the active remote id; so
\* a snapshot taken during a reveal keeps the explanation it was taken with.
C22_TickFrame ==
    [][\A t \in timers : Tick(t) =>
          /\ Len(chat') = Len(chat)
          /\ \A k \in 1..Len(chat) :
                IF chat[k].id = t.turnId
                THEN chat'[k] = [chat[k] EXCEPT !.explanation = chat'[k].explanation]
                ELSE chat'[k] = chat[k]
          /\ conversations' = conversations
          /\ lsConversations' = lsConversations
          /\ lsConversationId' = lsConversationId
          /\ conversationId' = conversationId
      ]_vars

C22_Witness ==
    /\ lastOp = "tick"
    /\ \E k \in 1..Len(conversations) : \E t \in timers :
          /\ Len(conversations[k].turns) >= 1
          /\ t.turnId = Last(conversations[k].turns).id
          /\ Len(Last(conversations[k].turns).explanation) = 2
          /\ t.index = 4

\* C23: the first render over a collection slot that holds an array gives one
\* conversation per record, in the order of the records, each with the
\* record's own title, remote id, creation time and turns where the record has
\* them and the default where it has not, and with the record's own id where
\* it is a non-empty string that no earlier record carries.
C23_LoadKeepsEveryRecord ==
    [][(/\ ~mounted
        /\ lsConversations.present /\ ~lsConversations.empty /\ lsConversations.valid
        /\ lsConversations.json.t = "array")
       => LET recs == lsConversations.json.v
          IN  /\ mounted'
              /\ Len(conversations') = Len(recs)
              /\ \A k \in 1..Len(recs) :
                    LET c == recs[k]
                        has(f, t) == c.t = "object" /\ c.v[f].t = t
                        conv == conversations'[k]
                    IN  /\ conv.title =
                              IF has("title", "string") /\ Len(Trim(c.v.title.v)) > 0
                              THEN c.v.title.v ELSE <<"C", "o", "n", "v", "e", "r", "s",
                                                      "a", "t", "i", "o", "n">>
                        /\ conv.turns = IF has("turns", "array") THEN c.v.turns.v ELSE <<>>
                        /\ conv.conversationId =
                              IF has("conversationId", "string") THEN c.v.conversationId.v
                              ELSE IF has("conversation_id", "string")
                                   THEN c.v.conversation_id.v
                              ELSE NULL
                        /\ has("createdAt", "number") => conv.createdAt = c.v.createdAt.v
                        /\ (/\ has("id", "string")
                            /\ Len(c.v.id.v) > 0
                            /\ \A j \in 1..(k - 1) :
                                  ~(recs[j].t = "object" /\ recs[j].v.id = c.v.id))
                           => conv.id = c.v.id.v
      ]_vars

\* C24: whatever happened to the session while the request was in flight, a
\* response that arrives adds its turn after the turns active at that moment,
\* and binds its remote id exactly when the id the request was sent with is
\* null and the response carries one: the active id of that moment has no say.
C24_ResponseNeverDiscarded ==
    [][\A i \in 1..Len(pending) : \A r \in ResponseIds : \A x \in Explanations :
          AskSuccess(i, r, x) =>
              LET sent == pending[i].conversation_id
                  binds == sent \in {NULL, EMPTY} /\ r \notin {NULL, EMPTY}
              IN  /\ SubSeq(chat', 1, Len(chat)) = chat
                  /\ Len(chat') = Len(chat) + 1
                  /\ Last(chat').question = pending[i].question
                  /\ conversationId' = IF binds THEN r ELSE conversationId
                  /\ lsConversationId' = IF binds THEN r ELSE lsConversationId
      ]_vars

C24_Witness ==
    /\ lastOp = "askBound"
    /\ nextId = 1
    /\ conversationId = "r2"
    /\ Len(chat) = 2
    /\ chat[1].id = <<"p", 9>>
    /\ chat[2].id[1] = "u"

\* C25: with the Send button and the Enter key as the only callers, a request
\* is issued only while loading is false, the question is not blank and no
\* request is in flight; at most one request is in flight, and loading is true
\* exactly while one is.
C25_OneRequestInFlight ==
    /\ [](Len(pending) <= 1 /\ (loading <=> Len(pending) = 1))
    /\ [][Len(pending') > Len(pending) =>
             /\ ~loading
             /\ \E k \in 1..Len(question) : ~IsWs(question[k])
             /\ Len(pending) = 0
             /\ loading'
        ]_vars

C25_Witness ==
    /\ lastOp = "input"
    /\ loading
    /\ Len(pending) = 1
    /\ \E k \in 1..Len(question) : ~IsWs(question[k])

====
